---- MODULE Spec2Model ----
(***************************************************************************)
(* Model of elastic-package's docker wrappers (internal/docker/docker.go), *)
(* the swarm commands (cmd/stack_swarm.go), the stack deployment           *)
(* (internal/stack), the manifest query command (cmd/query.go) and the     *)
(* Elasticsearch error constructor (internal/elasticsearch).               *)
(*                                                                         *)
(* Every command is one synchronous, single-threaded run.  An external     *)
(* process is an input: its exit code, its standard output and its         *)
(* standard error are chosen from small sets.  Text is a sequence of       *)
(* tokens (a token stands for a run of bytes), an error is the chain of    *)
(* its wrapped messages, outermost first.                                  *)
(***************************************************************************)
EXTENDS Integers, Sequences, FiniteSets, TLC

VARIABLES
    \* cmd/stack_swarm.go: one run of `elastic-package stack swarm init`
    pc,                 \* position in stackInit
    iftname,            \* --interface flag
    subnet,             \* --subnet flag
    overlayNetworkName, \* --overlay-network-name flag
    joinToken,          \* result of docker.SwarmInit
    err,                \* the err variable of stackInit
    ret,                \* the error stackInit returned (Nil: none)
    trace,              \* external effects, in the order they were invoked
    printed,            \* what cmd.Println wrote
    \* internal/docker/docker.go and internal/stack: one call of a wrapper
    debug,              \* logger.IsDebugMode()
    dcall,              \* the wrapper call made: operation and result
    dargs,              \* the arguments of the call
    dtwin,              \* the same call, same process, in the other debug mode
    \* cmd/query.go: one run of `elastic-package query manifest`
    qpc,                \* position in queryManifest
    gomod,              \* ./go.mod
    packagesDir,        \* ./packages: whether it can be listed, and its entries
    key,                \* --key flag
    values,             \* --value flag
    pkgs,               \* what ioutil.ReadDir returned
    idx,                \* number of entries of pkgs the loop is through with
    skipped,            \* the skipped list
    found,              \* the found list
    qret,               \* the error queryManifest returned (Nil: none)
    out,                \* what cmd.Println wrote
    qreads,             \* the files and directories read, in order
    \* internal/stack: one run of Deploy
    dpc,                \* position in Deploy
    buildPackages,      \* what builder.FindBuildPackagesDirectory finds
    dfound,             \* the found variable of Deploy
    dest,               \* the files of the stack packages directory
    dret,               \* the error Deploy returned (Nil: none)
    dtrace,             \* the stages that ran, in order, with their outcome
    dout,               \* what fmt.Printf and fmt.Println wrote
    \* internal/elasticsearch: one call of NewError
    body,               \* the response body passed to NewError
    eret                \* the error NewError returned (Nil: not called yet)

swarmVars  == <<pc, iftname, subnet, overlayNetworkName, joinToken, err, ret, trace, printed>>
dockerVars == <<debug, dcall, dargs, dtwin>>
queryVars  == <<qpc, gomod, packagesDir, key, values, pkgs, idx, skipped, found, qret, out, qreads>>

deployVars == <<dpc, buildPackages, dfound, dest, dret, dtrace, dout>>

errorVars  == <<body, eret>>

otherThanSwarm  == <<dockerVars, queryVars, deployVars, errorVars>>
otherThanDocker == <<swarmVars, queryVars, deployVars, errorVars>>
otherThanQuery  == <<swarmVars, dockerVars, deployVars, errorVars>>
otherThanDeploy == <<swarmVars, dcall, dargs, dtwin, queryVars, errorVars>>
otherThanError  == <<swarmVars, dockerVars, queryVars, deployVars>>

----------------------------------------------------------------------------
(* Bounds and sample inputs *)

\* longest standard output of a process, in tokens
MaxOut == 3

ExitCodes   == {0, 1}
StderrTexts == {"boom", "permission denied"}

RECURSIVE SeqsUpTo(_, _)
SeqsUpTo(S, n) ==
    IF n = 0 THEN {<<>>}
    ELSE LET shorter == SeqsUpTo(S, n - 1)
         IN  shorter \cup {Append(s, x) : s \in {t \in shorter : Len(t) = n - 1}, x \in S}

\* what an external process did: exit code, standard output, standard error
Procs(outs) == [exit : ExitCodes, out : outs, err : StderrTexts]

NoOutput     == {<<>>}
PsOutputs    == SeqsUpTo({"id1", "id2", "\n"}, MaxOut)
JsonOutputs  == SeqsUpTo({"[", "]", "{}", ","}, MaxOut)
TokenOutputs == {<<"SWMTKN-1-abc">>, <<"SWMTKN-1-abc", "\n">>}

----------------------------------------------------------------------------
(* Errors: github.com/pkg/errors chains, outermost message first *)

Nil == <<>>

Msg(m)              == [msg |-> m, stderr |-> <<>>]
Wrap(e, m)          == <<Msg(m)>> \o e
\* errors.Wrapf(err, "... (stderr=%q)", errOutput.String())
WrapStderr(e, m, s) == <<[msg |-> m, stderr |-> <<s>>]>> \o e

\* the error text contains the text s
Contains(e, s) == s = "" \/ \E i \in 1..Len(e) : e[i].stderr = <<s>>

----------------------------------------------------------------------------
(* os/exec: one invocation and its outcome *)

NilEnv == [set |-> FALSE, vars |-> <<>>]

\* exec.Command("docker", args...) with the given wiring of the two streams:
\* "buffer" (captured), "console" (os.Stdout / os.Stderr) or "discard" (nil)
\* and what the process p did
Exec(args, stdout, stderr, env, p) ==
    [kind |-> "exec", args |-> <<"docker">> \o args, stdout |-> stdout,
     stderr |-> stderr, env |-> env, proc |-> p]

\* a call that is no process: interface lookup, profile creation
Effect(kind, args, ok) ==
    [kind |-> kind, args |-> args, stdout |-> "-", stderr |-> "-", env |-> NilEnv,
     proc |-> [exit |-> IF ok THEN 0 ELSE 1, out |-> <<>>, err |-> ""]]

\* cmd.Run() / cmd.Output(): *exec.ExitError on a non-zero exit
ExitError(p) == IF p.exit = 0 THEN Nil ELSE <<Msg("exit status 1")>>

----------------------------------------------------------------------------
(* Text helpers of the Go standard library, on token sequences *)

IsSpace(t) == t \in {"\n", " "}

\* bytes.TrimSpace
RECURSIVE TrimLeft(_)
TrimLeft(s) == IF s # <<>> /\ IsSpace(Head(s)) THEN TrimLeft(Tail(s)) ELSE s

RECURSIVE TrimRight(_)
TrimRight(s) ==
    IF s # <<>> /\ IsSpace(s[Len(s)]) THEN TrimRight(SubSeq(s, 1, Len(s) - 1)) ELSE s

TrimSpace(s) == TrimRight(TrimLeft(s))

\* bytes.Split(s, []byte{'\n'}): one more piece than there are separators
RECURSIVE SplitLines(_)
SplitLines(s) ==
    IF \A i \in 1..Len(s) : s[i] # "\n" THEN <<s>>
    ELSE LET i == CHOOSE k \in 1..Len(s) : s[k] = "\n" /\ \A j \in 1..(k - 1) : s[j] # "\n"
         IN  <<SubSeq(s, 1, i - 1)>> \o SplitLines(SubSeq(s, i + 1, Len(s)))

\* json.Unmarshal(output, &descriptions) into a slice of structs: a JSON array
\* of objects decodes (unknown fields are ignored), anything else is an error
JsonArrayOk(s) ==
    /\ Len(s) >= 2
    /\ s[1] = "[" /\ s[Len(s)] = "]"
    /\ LET mid == SubSeq(s, 2, Len(s) - 1)
       IN  \/ mid = <<>>
           \/ /\ Len(mid) % 2 = 1
              /\ \A i \in 1..Len(mid) : mid[i] = (IF i % 2 = 1 THEN "{}" ELSE ",")

JsonArrayLen(s) == (Len(s) - 1) \div 2

EmptyDescription == [fields |-> <<>>]

Unmarshal(s) ==
    IF JsonArrayOk(s)
    THEN [err |-> Nil, val |-> [i \in 1..JsonArrayLen(s) |-> EmptyDescription]]
    ELSE [err |-> <<Msg("invalid character or unexpected end of JSON input")>>, val |-> <<>>]

----------------------------------------------------------------------------
(* internal/docker/docker.go.  Each wrapper is an operator from its        *)
(* arguments, the debug mode and the behaviour p of the process it starts  *)
(* to [cmds: the invocations made, val: the value, err: the error].        *)

Result(cmds, val, e) == [cmds |-> cmds, val |-> val, err |-> e]

\* in debug mode the stream goes to the console, otherwise it is left nil
Mirror(dbg) == IF dbg THEN "console" ELSE "discard"

\* "name=" + containerName, containerName + ":" + containerPath
NameFilter(containerName) ==
    CASE containerName = "elasticsearch" -> "name=elasticsearch"
      [] containerName = "kibana"        -> "name=kibana"

CopySource(containerName, containerPath) ==
    CASE containerName = "elasticsearch" /\ containerPath = "/logs" -> "elasticsearch:/logs"
      [] containerName = "kibana" /\ containerPath = "/logs"        -> "kibana:/logs"

\* mutant: in debug mode the error of cmd.Run() is not returned
Pull_DebugSilent(image, dbg, p) ==
    Result(<<Exec(<<"pull", image>>, Mirror(dbg), Mirror(dbg), NilEnv, p)>>, <<>>,
           IF p.exit # 0 /\ ~dbg THEN Wrap(ExitError(p), "running docker command failed") ELSE Nil)

Pull(image, dbg, p) ==
    Result(<<Exec(<<"pull", image>>, Mirror(dbg), Mirror(dbg), NilEnv, p)>>, <<>>,
           IF p.exit # 0 THEN Wrap(ExitError(p), "running docker command failed") ELSE Nil)

ContainerID(containerName, p) ==
    LET cmd == Exec(<<"ps", "--filter", NameFilter(containerName), "--format", "{{.ID}}">>,
                    "buffer", "buffer", NilEnv, p)
        containerIDs == SplitLines(TrimSpace(p.out))
    IN  IF p.exit # 0
        THEN Result(<<cmd>>, <<>>, WrapStderr(ExitError(p), "could not find container", p.err))
        ELSE IF Len(containerIDs) # 1
        THEN Result(<<cmd>>, <<>>, <<Msg("expected single container")>>)
        ELSE Result(<<cmd>>, containerIDs[1], Nil)

InspectNetwork(network, p) ==
    LET cmd == Exec(<<"network", "inspect", network>>, "buffer", "buffer", NilEnv, p)
        dec == Unmarshal(p.out)
    IN  IF p.exit # 0
        THEN Result(<<cmd>>, <<>>, WrapStderr(ExitError(p), "could not inspect the network", p.err))
        ELSE IF dec.err # Nil
        THEN Result(<<cmd>>, <<>>, WrapStderr(dec.err, "can't unmarshal network inspect", p.err))
        ELSE Result(<<cmd>>, dec.val, Nil)

ConnectToNetwork(containerID, network, p) ==
    Result(<<Exec(<<"network", "connect", network, containerID>>, "discard", "buffer", NilEnv, p)>>,
           <<>>,
           IF p.exit # 0
           THEN WrapStderr(ExitError(p), "could not attach container to the stack network", p.err)
           ELSE Nil)

CreateNetwork(name, driver, arg, p) ==
    LET netcmd == <<"network", "create", "--driver", driver>> \o arg \o <<name>>
    IN  Result(<<Exec(netcmd, "discard", "buffer", NilEnv, p)>>, <<>>,
               IF p.exit # 0
               THEN WrapStderr(ExitError(p), "could not create stack network", p.err)
               ELSE Nil)

InspectContainers(containerIDs, p) ==
    LET cmd == Exec(<<"inspect">> \o containerIDs, "buffer", "buffer", NilEnv, p)
        dec == Unmarshal(p.out)
    IN  IF p.exit # 0
        THEN Result(<<cmd>>, <<>>, WrapStderr(ExitError(p), "could not inspect containers", p.err))
        ELSE IF dec.err # Nil
        THEN Result(<<cmd>>, <<>>, WrapStderr(dec.err, "can't unmarshal container inspect", p.err))
        ELSE Result(<<cmd>>, dec.val, Nil)

Copy(containerName, containerPath, localPath, p) ==
    Result(<<Exec(<<"cp", CopySource(containerName, containerPath), localPath>>,
                  "discard", "buffer", NilEnv, p)>>,
           <<>>,
           IF p.exit # 0
           THEN WrapStderr(ExitError(p), "could not copy files from the container", p.err)
           ELSE Nil)

swarmJoinToken(p) ==
    LET cmd == Exec(<<"swarm", "join-token", "worker">>, "buffer", "buffer", NilEnv, p)
    IN  IF p.exit # 0
        THEN Result(<<cmd>>, <<>>, WrapStderr(ExitError(p), "unable to get join token", p.err))
        ELSE Result(<<cmd>>, p.out, Nil)

\* p runs `docker swarm init`, q runs `docker swarm join-token worker`
SwarmInit(ift, p, q) ==
    LET cmd == Exec(<<"swarm", "init", "--advertise-addr", ift>>, "discard", "buffer", NilEnv, p)
        tok == swarmJoinToken(q)
    IN  IF p.exit # 0
        THEN Result(<<cmd>>, <<>>, WrapStderr(ExitError(p), "docker swarm init failed", p.err))
        ELSE IF tok.err # Nil
        THEN Result(<<cmd>> \o tok.cmds, <<>>, tok.err)
        ELSE Result(<<cmd>> \o tok.cmds, tok.val, Nil)

SwarmLeave(p) ==
    Result(<<Exec(<<"swarm", "leave", "--force">>, "discard", "buffer", NilEnv, p)>>, <<>>,
           IF p.exit # 0
           THEN WrapStderr(ExitError(p), "docker swarm leave failed", p.err)
           ELSE Nil)

\* mutant: the exit status of `docker stack rm` is dropped
SwarmStackDown_Dropped(stackName, dbg, p) ==
    Result(<<Exec(<<"stack", "rm", stackName>>, Mirror(dbg), Mirror(dbg), NilEnv, p)>>, <<>>, Nil)

SwarmStackDown(stackName, dbg, p) ==
    Result(<<Exec(<<"stack", "rm", stackName>>, Mirror(dbg), Mirror(dbg), NilEnv, p)>>, <<>>,
           ExitError(p))

----------------------------------------------------------------------------
(* internal/stack: stackDeploy *)

\* os/exec (Cmd.Start): of the entries of cmd.Env with the same name the
\* process is given the last one only; the entries it is given, as a set
\* (their order in the environment block differs between Go releases)
dedupEnv(env) ==
    {env[i] : i \in {k \in 1..Len(env) : \A j \in (k + 1)..Len(env) : env[j].name # env[k].name}}

\* the environment builder: a list of NAME=value entries
newEnvBuilder      == <<>>
withEnvs(b, envs)  == b \o envs
withEnv(b, env)    == Append(b, env)
build(b)           == b

\* cfgOk: install.Configuration() succeeded; environ: os.Environ();
\* imageRefs: appConfig.StackImageRefs(options.StackVersion).AsEnv();
\* variant: stackVariantAsEnv(options.StackVersion);
\* composeEnvVars: options.Profile.ComposeEnvVars()
\* mutant: cmd.Env = envs, the inherited environment is replaced
stackDeploy_EnvReplaced(composeFile, stackName, cfgOk, environ, imageRefs, variant, composeEnvVars, dbg, p) ==
    LET args == <<"stack", "deploy", "--compose-file", composeFile, stackName>>
        envs == build(withEnvs(withEnv(withEnvs(newEnvBuilder, imageRefs), variant), composeEnvVars))
    IN  IF ~cfgOk
        THEN Result(<<>>, <<>>, Wrap(<<Msg("configuration error")>>, "can't read application configuration"))
        ELSE Result(<<Exec(args, Mirror(dbg), Mirror(dbg), [set |-> TRUE, vars |-> envs], p)>>,
                    <<>>, ExitError(p))

stackDeploy(composeFile, stackName, cfgOk, environ, imageRefs, variant, composeEnvVars, dbg, p) ==
    LET args == <<"stack", "deploy", "--compose-file", composeFile, stackName>>
        envs == build(withEnvs(withEnv(withEnvs(newEnvBuilder, imageRefs), variant), composeEnvVars))
    IN  IF ~cfgOk
        THEN Result(<<>>, <<>>, Wrap(<<Msg("configuration error")>>, "can't read application configuration"))
        ELSE Result(<<Exec(args, Mirror(dbg), Mirror(dbg), [set |-> TRUE, vars |-> environ \o envs], p)>>,
                    <<>>, ExitError(p))

----------------------------------------------------------------------------
(* cmd/stack_swarm.go: `elastic-package stack swarm init` *)

\* the interfaces of the host, and the names a user may pass
HostInterfaces == {"eth0", "lo"}
IfaceNames     == {"eth0", "lo", "eth7", ""}

\* subnet strings a user may pass, and those net.ParseCIDR accepts
ValidCIDRs == {"10.0.9.0/24", "192.168.0.0/16", "2001:db8::/32"}
Subnets    == ValidCIDRs \cup {"10.0.9.0", "10.0.9.0/33", "300.0.9.0/24", "overlay", ""}

NetworkNames == {"elastic-package-stack-overlay", "mynet"}

\* net.InterfaceByName(name)
InterfaceByName(name) ==
    IF name \in HostInterfaces THEN Nil ELSE <<Msg("route ip+net: no such network interface")>>

\* net.ParseCIDR(s)
ParseCIDR(s) == IF s \in ValidCIDRs THEN Nil ELSE <<Msg("invalid CIDR address")>>

\* mutant: the subnet is handed to docker without being parsed
createOverlayNetwork_Unparsed(networkName, sub, p) ==
    CreateNetwork(networkName, "overlay", <<"--subnet", sub, "--attachable">>, p)

createOverlayNetwork(networkName, sub, p) ==
    LET perr == ParseCIDR(sub)
        overlayArgs == <<"--subnet", sub, "--attachable">>
    IN  IF perr # Nil
        THEN Result(<<>>, <<>>, Wrap(perr, "create overlay network failed"))
        ELSE CreateNetwork(networkName, "overlay", overlayArgs, p)

\* the parts of the state a run of another command leaves alone
SwarmUnused ==
    /\ pc = "unused"
    /\ iftname = ""
    /\ subnet = ""
    /\ overlayNetworkName = ""
    /\ joinToken = <<>>
    /\ err = Nil
    /\ ret = Nil
    /\ trace = <<>>
    /\ printed = <<>>

DockerUnused ==
    /\ debug = FALSE
    /\ dcall = [op |-> "unused", res |-> Result(<<>>, <<>>, Nil)]
    /\ dargs = <<>>
    /\ dtwin = [op |-> "unused", res |-> Result(<<>>, <<>>, Nil)]

ErrorUnused ==
    /\ body = [kind |-> "unused"]
    /\ eret = Nil

DeployUnused ==
    /\ dpc = "unused"
    /\ buildPackages = [ok |-> FALSE, found |-> FALSE, path |-> "", files |-> {}]
    /\ dfound = FALSE
    /\ dest = {}
    /\ dret = Nil
    /\ dtrace = <<>>
    /\ dout = <<>>

QueryUnused ==
    /\ qpc = "unused"
    /\ gomod = [exists |-> FALSE, readable |-> FALSE, module |-> ""]
    /\ packagesDir = [ok |-> FALSE, entries |-> <<>>]
    /\ key = ""
    /\ values = <<>>
    /\ pkgs = <<>>
    /\ idx = 0
    /\ skipped = <<>>
    /\ found = <<>>
    /\ qret = Nil
    /\ out = <<>>
    /\ qreads = <<>>

\* The flags are registered on the init command (lines 42-47), so the
\* GetString lookups of lines 128-144 do not fail.
Init ==
    /\ pc = "lookup"
    /\ iftname \in IfaceNames
    /\ subnet \in Subnets
    /\ overlayNetworkName \in NetworkNames
    /\ joinToken = <<>>
    /\ err = Nil
    /\ ret = Nil
    /\ trace = <<>>
    /\ printed = <<>>
    /\ DockerUnused
    /\ QueryUnused
    /\ DeployUnused
    /\ ErrorUnused

\* mutant: the result of the interface lookup is not looked at
stackInitLookup_Unchecked ==
    /\ pc = "lookup"
    /\ trace' = Append(trace, Effect("net.InterfaceByName", <<iftname>>,
                                     InterfaceByName(iftname) = Nil))
    /\ pc' = "profile"
    /\ UNCHANGED <<iftname, subnet, overlayNetworkName, joinToken, err, ret, printed, otherThanSwarm>>

\* lines 132-135
stackInitLookup ==
    /\ pc = "lookup"
    /\ LET e == InterfaceByName(iftname)
       IN  /\ trace' = Append(trace, Effect("net.InterfaceByName", <<iftname>>, e = Nil))
           /\ IF e # Nil
              THEN /\ ret' = Wrap(e, "cannot create docker swarm without overlay network interface")
                   /\ pc' = "done"
              ELSE /\ ret' = ret
                   /\ pc' = "profile"
    /\ UNCHANGED <<iftname, subnet, overlayNetworkName, joinToken, err, printed, otherThanSwarm>>

\* lines 146-154
stackInitProfile ==
    /\ pc = "profile"
    /\ \E ok \in BOOLEAN :
         /\ trace' = Append(trace, Effect("profile.CreateProfile",
                                          <<"SwarmProfile", "DefaultProfile", "OverwriteExisting">>, ok))
         /\ IF ~ok
            THEN /\ ret' = Wrap(<<Msg("profile error")>>, "swarm profile creation has failed")
                 /\ pc' = "done"
            ELSE /\ ret' = ret
                 /\ pc' = "swarm"
    /\ UNCHANGED <<iftname, subnet, overlayNetworkName, joinToken, err, printed, otherThanSwarm>>

\* mutant: a failed docker.SwarmInit does not end the command
stackInitSwarm_Continue ==
    /\ pc = "swarm"
    /\ \E p \in Procs(NoOutput), q \in Procs(TokenOutputs) :
         LET r == SwarmInit(iftname, p, q)
         IN  /\ trace' = trace \o r.cmds
             /\ joinToken' = r.val
             /\ pc' = "overlay"
    /\ UNCHANGED <<iftname, subnet, overlayNetworkName, err, ret, printed, otherThanSwarm>>

\* lines 156-159
stackInitSwarm ==
    /\ pc = "swarm"
    /\ \E p \in Procs(NoOutput), q \in Procs(TokenOutputs) :
         LET r == SwarmInit(iftname, p, q)
         IN  /\ trace' = trace \o r.cmds
             /\ joinToken' = r.val
             /\ IF r.err # Nil
                THEN /\ ret' = Wrap(r.err, "docker swarm creation has failed")
                     /\ pc' = "done"
                ELSE /\ ret' = ret
                     /\ pc' = "overlay"
    /\ UNCHANGED <<iftname, subnet, overlayNetworkName, err, printed, otherThanSwarm>>

\* lines 160-161
stackInitOverlay ==
    /\ pc = "overlay"
    /\ \E p \in Procs(NoOutput) :
         LET r == createOverlayNetwork(overlayNetworkName, subnet, p)
         IN  /\ trace' = trace \o r.cmds
             /\ err' = r.err
             /\ pc' = IF r.err # Nil THEN "rollback" ELSE "print"
    /\ UNCHANGED <<iftname, subnet, overlayNetworkName, joinToken, ret, printed, otherThanSwarm>>

\* mutant: the error is returned without leaving the swarm
stackInitRollback_NoLeave ==
    /\ pc = "rollback"
    /\ ret' = Wrap(err, "cannot initialize swarm")
    /\ pc' = "done"
    /\ UNCHANGED <<iftname, subnet, overlayNetworkName, joinToken, err, trace, printed, otherThanSwarm>>

\* lines 162-163: the result of docker.SwarmLeave() is dropped
stackInitRollback ==
    /\ pc = "rollback"
    /\ \E p \in Procs(NoOutput) :
         trace' = trace \o SwarmLeave(p).cmds
    /\ ret' = Wrap(err, "cannot initialize swarm")
    /\ pc' = "done"
    /\ UNCHANGED <<iftname, subnet, overlayNetworkName, joinToken, err, printed, otherThanSwarm>>

\* lines 165-166
stackInitPrint ==
    /\ pc = "print"
    /\ printed' = Append(printed, joinToken)
    /\ ret' = Nil
    /\ pc' = "done"
    /\ UNCHANGED <<iftname, subnet, overlayNetworkName, joinToken, err, trace, otherThanSwarm>>

Next ==
    \/ stackInitLookup
    \/ stackInitProfile
    \/ stackInitSwarm
    \/ stackInitOverlay
    \/ stackInitRollback
    \/ stackInitPrint

vars == <<swarmVars, dockerVars, queryVars, deployVars, errorVars>>

Spec == Init /\ [][Next]_vars

----------------------------------------------------------------------------
(* Reading the trace *)

HasPrefix(e, pre) ==
    /\ e.kind = "exec"
    /\ Len(e.args) >= Len(pre)
    /\ SubSeq(e.args, 1, Len(pre)) = pre

IsLookup(e)        == e.kind = "net.InterfaceByName"
IsProfile(e)       == e.kind = "profile.CreateProfile"
IsSwarmInit(e)     == HasPrefix(e, <<"docker", "swarm", "init">>)
IsJoinToken(e)     == HasPrefix(e, <<"docker", "swarm", "join-token">>)
IsNetworkCreate(e) == HasPrefix(e, <<"docker", "network", "create">>)
IsSwarmLeave(e)    == e.kind = "exec" /\ e.args = <<"docker", "swarm", "leave", "--force">>

\* a call that changes something: the profile or the docker daemon
IsMutation(e) == IsProfile(e) \/ e.kind = "exec"

Succeeded(e) == e.proc.exit = 0

\* the place of a call in stackInit's normal sequence
Rank(e) ==
    CASE IsLookup(e)        -> 0
      [] IsProfile(e)       -> 1
      [] IsSwarmInit(e)     -> 2
      [] IsJoinToken(e)     -> 3
      [] IsNetworkCreate(e) -> 4
      [] IsSwarmLeave(e)    -> 5
      [] OTHER              -> 6

----------------------------------------------------------------------------
(* Claims about stackInit, under Spec *)

\* C1: when swarm init and the join-token fetch succeeded and the overlay
\* network creation then fails, `docker swarm leave --force` is invoked
\* before stackInit returns, and stackInit returns the overlay network
\* creation error wrapped, whatever the swarm leave itself returned.
C1_LeaveBeforeOverlayError ==
    /\ err # Nil =>
         /\ err[1].msg \in {"create overlay network failed", "could not create stack network"}
         /\ \E i, j \in 1..Len(trace) :
              /\ i < j
              /\ IsSwarmInit(trace[i]) /\ Succeeded(trace[i])
              /\ IsJoinToken(trace[j]) /\ Succeeded(trace[j])
    /\ (err # Nil /\ pc # "done") =>
         /\ pc = "rollback"
         /\ ret = Nil
    /\ (err # Nil /\ pc = "done") =>
         /\ IsSwarmLeave(trace[Len(trace)])
         /\ ret = Wrap(err, "cannot initialize swarm")

\* C1 witness: the overlay network creation failed, the swarm leave failed
\* too, and stackInit returned the overlay error.
C1_Witness ==
    /\ pc = "done"
    /\ err # Nil
    /\ err[1].msg = "could not create stack network"
    /\ IsSwarmLeave(trace[Len(trace)])
    /\ ~Succeeded(trace[Len(trace)])
    /\ ret[1].msg = "cannot initialize swarm"

\* C2 (as claimed): for a subnet that is no valid CIDR the command fails
\* without a side effect: no profile creation and no docker command.
C2_InvalidSubnetNoSideEffect ==
    ParseCIDR(subnet) # Nil =>
        /\ \A i \in 1..Len(trace) :
              /\ ~(IsProfile(trace[i]) /\ Succeeded(trace[i]))
              /\ trace[i].kind # "exec"
        /\ pc = "done" => ret # Nil

\* C3: createOverlayNetwork with a subnet that fails CIDR parsing returns an
\* error and invokes no command; with a subnet that parses it invokes
\* exactly one `docker network create --driver overlay --subnet <subnet>
\* --attachable <name>`.
C3_OverlayNetworkCommand ==
    LET creates == {i \in 1..Len(trace) : IsNetworkCreate(trace[i])}
    IN  /\ ParseCIDR(subnet) # Nil => creates = {}
        /\ pc \in {"rollback", "print"} =>
             IF ParseCIDR(subnet) # Nil
             THEN /\ err # Nil
                  /\ IsJoinToken(trace[Len(trace)])
             ELSE /\ creates = {Len(trace)}
                  /\ trace[Len(trace)].args =
                         <<"docker", "network", "create", "--driver", "overlay",
                           "--subnet", subnet, "--attachable", overlayNetworkName>>

C3_Witness ==
    /\ pc = "rollback"
    /\ ParseCIDR(subnet) # Nil
    /\ IsJoinToken(trace[Len(trace)])

\* C5: when the named interface does not exist the command returns an error
\* before any profile creation and any docker command; the interface lookup
\* precedes `docker swarm init`.
C5_InterfaceCheckedFirst ==
    /\ InterfaceByName(iftname) # Nil =>
         /\ \A i \in 1..Len(trace) : ~IsMutation(trace[i])
         /\ pc # "lookup" => (pc = "done" /\ ret # Nil)
    /\ \A i \in 1..Len(trace) :
         IsMutation(trace[i]) =>
            \E j \in 1..(i - 1) : IsLookup(trace[j]) /\ Succeeded(trace[j])

C5_Witness ==
    /\ pc = "done"
    /\ InterfaceByName(iftname) # Nil
    /\ ret # Nil
    /\ Len(trace) = 1

\* C6: the steps of stackInit run in the order profile creation, `docker
\* swarm init --advertise-addr <iface>`, join-token fetch, overlay network
\* creation; a step runs only if every earlier step succeeded; the join
\* token is printed only when all of them succeeded.
C6_StepOrder ==
    /\ \A i \in 1..Len(trace) :
         /\ Rank(trace[i]) <= 5
         /\ IsSwarmInit(trace[i]) =>
                trace[i].args = <<"docker", "swarm", "init", "--advertise-addr", iftname>>
         /\ IsProfile(trace[i]) =>
                trace[i].args = <<"SwarmProfile", "DefaultProfile", "OverwriteExisting">>
    /\ \A i, j \in 1..Len(trace) : i < j => Rank(trace[i]) < Rank(trace[j])
    /\ \A j \in 1..Len(trace) :
         Rank(trace[j]) \in 1..4 =>
            \A r \in 1..(Rank(trace[j]) - 1) :
               \E i \in 1..(j - 1) : Rank(trace[i]) = r /\ Succeeded(trace[i])
    /\ printed # <<>> =>
         /\ pc = "done" /\ ret = Nil
         /\ \A r \in 1..4 : \E i \in 1..Len(trace) : Rank(trace[i]) = r /\ Succeeded(trace[i])
         /\ \E i \in 1..Len(trace) : IsJoinToken(trace[i]) /\ printed = <<trace[i].proc.out>>

C6_Witness ==
    /\ pc = "done"
    /\ printed # <<>>
    /\ Len(trace) = 5

----------------------------------------------------------------------------
(* The docker wrappers called one at a time, in and outside debug mode *)

Images         == {"elasticsearch:8.0.0", "kibana:8.0.0"}
ContainerNames == {"elasticsearch", "kibana"}
ContainerIDs   == {"id1", "id2"}
Networks       == {"elastic-package-stack_default", "mynet"}
Drivers        == {"bridge", "overlay"}
ExtraArgs      == {<<>>, <<"--attachable">>}
StackNames     == {"elastic-package-stack", "mystack"}
ComposeFiles   == {"profiles/default/stack/snapshot.yml", "profiles/swarm/stack/snapshot.yml"}
\* an environment entry NAME=value
EnvVar(name, value) == [name |-> name, value |-> value]

Environs       == {<<>>, <<EnvVar("PATH", "/usr/bin")>>,
                   <<EnvVar("HOME", "/root"), EnvVar("STACK_VERSION", "7.0.0")>>}
ImageRefEnvs   == {<<EnvVar("ELASTICSEARCH_IMAGE_REF", "es:8.0.0")>>,
                   <<EnvVar("ELASTICSEARCH_IMAGE_REF", "es:7.17.0"), EnvVar("KIBANA_IMAGE_REF", "kibana:7.17.0")>>}
VariantEnvs    == {EnvVar("STACK_VERSION_VARIANT", "default"), EnvVar("STACK_VERSION_VARIANT", "80")}
ComposeEnvVars == {<<>>, <<EnvVar("STACK_VERSION", "8.0.0")>>,
                   <<EnvVar("PROFILE_NAME", "default"), EnvVar("STACK_VERSION", "7.17.0")>>}

Idle == [op |-> "none", res |-> Result(<<>>, <<>>, Nil)]

DockerInit ==
    /\ debug \in BOOLEAN
    /\ dcall = Idle
    /\ dargs = <<>>
    /\ dtwin = Idle
    /\ SwarmUnused
    /\ QueryUnused
    /\ DeployUnused
    /\ ErrorUnused

CallPull ==
    /\ dcall = Idle
    /\ \E image \in Images, p \in Procs(NoOutput) :
         /\ dcall' = [op |-> "Pull", res |-> Pull(image, debug, p)]
         /\ dtwin' = [op |-> "Pull", res |-> Pull(image, ~debug, p)]
         /\ dargs' = <<image>>
    /\ UNCHANGED <<debug, otherThanDocker>>

CallContainerID ==
    /\ dcall = Idle
    /\ \E containerName \in ContainerNames, p \in Procs(PsOutputs) :
         /\ dcall' = [op |-> "ContainerID", res |-> ContainerID(containerName, p)]
         /\ dtwin' = [op |-> "ContainerID", res |-> ContainerID(containerName, p)]
         /\ dargs' = <<containerName>>
    /\ UNCHANGED <<debug, otherThanDocker>>

CallInspectNetwork ==
    /\ dcall = Idle
    /\ \E network \in Networks, p \in Procs(JsonOutputs) :
         /\ dcall' = [op |-> "InspectNetwork", res |-> InspectNetwork(network, p)]
         /\ dtwin' = [op |-> "InspectNetwork", res |-> InspectNetwork(network, p)]
         /\ dargs' = <<network>>
    /\ UNCHANGED <<debug, otherThanDocker>>

CallConnectToNetwork ==
    /\ dcall = Idle
    /\ \E containerID \in ContainerIDs, network \in Networks, p \in Procs(NoOutput) :
         /\ dcall' = [op |-> "ConnectToNetwork", res |-> ConnectToNetwork(containerID, network, p)]
         /\ dtwin' = [op |-> "ConnectToNetwork", res |-> ConnectToNetwork(containerID, network, p)]
         /\ dargs' = <<containerID, network>>
    /\ UNCHANGED <<debug, otherThanDocker>>

CallCreateNetwork ==
    /\ dcall = Idle
    /\ \E name \in Networks, driver \in Drivers, arg \in ExtraArgs, p \in Procs(NoOutput) :
         /\ dcall' = [op |-> "CreateNetwork", res |-> CreateNetwork(name, driver, arg, p)]
         /\ dtwin' = [op |-> "CreateNetwork", res |-> CreateNetwork(name, driver, arg, p)]
         /\ dargs' = <<name, driver, arg>>
    /\ UNCHANGED <<debug, otherThanDocker>>

CallInspectContainers ==
    /\ dcall = Idle
    /\ \E containerIDs \in {<<"id1">>, <<"id1", "id2">>}, p \in Procs(JsonOutputs) :
         /\ dcall' = [op |-> "InspectContainers", res |-> InspectContainers(containerIDs, p)]
         /\ dtwin' = [op |-> "InspectContainers", res |-> InspectContainers(containerIDs, p)]
         /\ dargs' = containerIDs
    /\ UNCHANGED <<debug, otherThanDocker>>

CallCopy ==
    /\ dcall = Idle
    /\ \E containerName \in ContainerNames, p \in Procs(NoOutput) :
         /\ dcall' = [op |-> "Copy", res |-> Copy(containerName, "/logs", "/tmp/logs", p)]
         /\ dtwin' = [op |-> "Copy", res |-> Copy(containerName, "/logs", "/tmp/logs", p)]
         /\ dargs' = <<containerName, "/logs", "/tmp/logs">>
    /\ UNCHANGED <<debug, otherThanDocker>>

CallSwarmInit ==
    /\ dcall = Idle
    /\ \E ift \in HostInterfaces, p \in Procs(NoOutput), q \in Procs(TokenOutputs) :
         /\ dcall' = [op |-> "SwarmInit", res |-> SwarmInit(ift, p, q)]
         /\ dtwin' = [op |-> "SwarmInit", res |-> SwarmInit(ift, p, q)]
         /\ dargs' = <<ift>>
    /\ UNCHANGED <<debug, otherThanDocker>>

CallSwarmJoinToken ==
    /\ dcall = Idle
    /\ \E p \in Procs(TokenOutputs) :
         /\ dcall' = [op |-> "swarmJoinToken", res |-> swarmJoinToken(p)]
         /\ dtwin' = [op |-> "swarmJoinToken", res |-> swarmJoinToken(p)]
         /\ dargs' = <<>>
    /\ UNCHANGED <<debug, otherThanDocker>>

CallSwarmLeave ==
    /\ dcall = Idle
    /\ \E p \in Procs(NoOutput) :
         /\ dcall' = [op |-> "SwarmLeave", res |-> SwarmLeave(p)]
         /\ dtwin' = [op |-> "SwarmLeave", res |-> SwarmLeave(p)]
         /\ dargs' = <<>>
    /\ UNCHANGED <<debug, otherThanDocker>>

CallSwarmStackDown ==
    /\ dcall = Idle
    /\ \E stackName \in StackNames, p \in Procs(NoOutput) :
         /\ dcall' = [op |-> "SwarmStackDown", res |-> SwarmStackDown(stackName, debug, p)]
         /\ dtwin' = [op |-> "SwarmStackDown", res |-> SwarmStackDown(stackName, ~debug, p)]
         /\ dargs' = <<stackName>>
    /\ UNCHANGED <<debug, otherThanDocker>>

CallStackDeploy ==
    /\ dcall = Idle
    /\ \E composeFile \in ComposeFiles, stackName \in StackNames, cfgOk \in BOOLEAN,
          environ \in Environs, imageRefs \in ImageRefEnvs, variant \in VariantEnvs,
          composeEnvVars \in ComposeEnvVars, p \in Procs(NoOutput) :
         /\ dcall' = [op |-> "stackDeploy",
                      res |-> stackDeploy(composeFile, stackName, cfgOk, environ, imageRefs, variant,
                                          composeEnvVars, debug, p)]
         /\ dtwin' = [op |-> "stackDeploy",
                      res |-> stackDeploy(composeFile, stackName, cfgOk, environ, imageRefs, variant,
                                          composeEnvVars, ~debug, p)]
         /\ dargs' = [composeFile |-> composeFile, stackName |-> stackName, cfgOk |-> cfgOk,
                      environ |-> environ, imageRefs |-> imageRefs, variant |-> variant,
                      composeEnvVars |-> composeEnvVars]
    /\ UNCHANGED <<debug, otherThanDocker>>

DockerNext ==
    \/ CallPull
    \/ CallContainerID
    \/ CallInspectNetwork
    \/ CallConnectToNetwork
    \/ CallCreateNetwork
    \/ CallInspectContainers
    \/ CallCopy
    \/ CallSwarmInit
    \/ CallSwarmJoinToken
    \/ CallSwarmLeave
    \/ CallSwarmStackDown
    \/ CallStackDeploy

DockerSpec == DockerInit /\ [][DockerNext]_vars

\* C4 (as claimed): every docker invocation has its standard error captured
\* into a buffer, in debug mode and outside it, and when the process exits
\* non-zero the operation returns an error whose text contains what the
\* process wrote to standard error.
C4_StderrCapturedInError ==
    \A i \in 1..Len(dcall.res.cmds) :
        LET c == dcall.res.cmds[i]
        IN  c.proc.exit # 0 =>
                /\ c.stderr = "buffer"
                /\ dcall.res.err # Nil
                /\ Contains(dcall.res.err, c.proc.err)

----------------------------------------------------------------------------
(* cmd/query.go: `elastic-package query manifest --key k --value v,...` *)

\* longest --value list
MaxValues == 2

elasticIntegrations == "github.com/elastic/integrations"

\* ./go.mod: absent, unreadable, or a file declaring a module path
GoMods ==
    {[exists |-> FALSE, readable |-> FALSE, module |-> ""],
     [exists |-> TRUE, readable |-> FALSE, module |-> ""],
     [exists |-> TRUE, readable |-> TRUE, module |-> ""],
     [exists |-> TRUE, readable |-> TRUE, module |-> "github.com/elastic/beats"],
     [exists |-> TRUE, readable |-> TRUE, module |-> elasticIntegrations]}

\* a flattened manifest: its keys in order, each with the value cfg.String
\* reads there, or unreadable as a string
KV(k, v)      == [key |-> k, readable |-> TRUE, str |-> v]
Unreadable(k) == [key |-> k, readable |-> FALSE, str |-> ""]

Loaded(cfg)    == [loadErr |-> "", cfg |-> cfg]
Unloadable(e)  == [loadErr |-> e, cfg |-> <<>>]

Manifests ==
    {Loaded(<<KV("format_version", "1.0.0"), KV("foo.bar", "x")>>),
     Loaded(<<KV("foo.bar", "y"), KV("owner.github", "x")>>),
     Loaded(<<Unreadable("foo.bar")>>),
     Loaded(<<KV("format_version", "1.0.0")>>),
     Unloadable("yaml: line 2: did not find expected key")}

\* the names under ./packages, in the order ioutil.ReadDir lists them (sorted)
PkgNames == <<"apache", "mysql", "nginx">>

\* what is under a name: nothing, a plain file, or a directory with a manifest
Absent    == [present |-> FALSE, isDir |-> FALSE, manifest |-> Unloadable("-")]
PlainFile == [present |-> TRUE, isDir |-> FALSE, manifest |-> Unloadable("-")]
Under     == {Absent, PlainFile} \cup {[present |-> TRUE, isDir |-> TRUE, manifest |-> m] : m \in Manifests}

RECURSIVE ListingFrom(_, _)
ListingFrom(f, i) ==
    IF i > Len(PkgNames) THEN <<>>
    ELSE (IF f[i].present
          THEN <<[name |-> PkgNames[i], isDir |-> f[i].isDir, manifest |-> f[i].manifest]>>
          ELSE <<>>) \o ListingFrom(f, i + 1)

Listings == {ListingFrom(f, 1) : f \in [1..Len(PkgNames) -> Under]}

Keys       == {"foo.bar", "owner.github"}
ValueLists == SeqsUpTo({"x", "y", " x"}, MaxValues)

\* strings.TrimSpace on the sample values; common.TrimStringSlice trims in place
TrimString(v)        == IF v = " x" THEN "x" ELSE v
TrimStringSlice(vs)  == [i \in 1..Len(vs) |-> TrimString(vs[i])]

\* cfg.FlattenedKeys(opts...) and cfg.String(f, 0, opts...)
FlattenedKeys(cfg) == [i \in 1..Len(cfg) |-> cfg[i].key]

ConfigString(cfg, f) ==
    LET e == cfg[CHOOSE i \in 1..Len(cfg) : cfg[i].key = f]
    IN  IF e.readable THEN [err |-> Nil, v |-> e.str]
        ELSE [err |-> <<Msg("type mismatch")>>, v |-> ""]

\* the loop of lines 100-108 from the i-th flattened key on.  The outcome is
\* a match, no match, or the run-time panic of values[0] on an empty slice
\* (the index is evaluated only when err == nil).
RECURSIVE queryPackageManifestFrom(_, _, _, _)
queryPackageManifestFrom(k, vals, cfg, i) ==
    IF i > Len(FlattenedKeys(cfg)) THEN [panic |-> FALSE, match |-> FALSE]
    ELSE IF k = FlattenedKeys(cfg)[i]
    THEN LET r == ConfigString(cfg, FlattenedKeys(cfg)[i])
         IN  IF r.err # Nil THEN [panic |-> FALSE, match |-> FALSE]
             ELSE IF Len(vals) = 0 THEN [panic |-> TRUE, match |-> FALSE]
             ELSE [panic |-> FALSE, match |-> (r.v = vals[1])]
    ELSE queryPackageManifestFrom(k, vals, cfg, i + 1)

\* mutant: any of the values matches
RECURSIVE queryPackageManifest_AnyValue(_, _, _)
queryPackageManifest_AnyValue(k, vals, cfg) ==
    IF vals = <<>> THEN queryPackageManifestFrom(k, vals, cfg, 1)
    ELSE LET r == queryPackageManifestFrom(k, <<Head(vals)>>, cfg, 1)
         IN  IF r.match \/ Tail(vals) = <<>> THEN r
             ELSE queryPackageManifest_AnyValue(k, Tail(vals), cfg)

queryPackageManifest(k, vals, cfg) == queryPackageManifestFrom(k, vals, cfg, 1)

\* modfile.ModulePath(b) of the go.mod read
ModulePath(g) == g.module

\* mutant: any go.mod that can be read passes
queryCheck_AnyModule(g) ==
    IF ~g.exists
    THEN Wrap(<<Msg("open ./go.mod: no such file or directory")>>,
              "query must be executed from the integrations project root directory")
    ELSE IF ~g.readable THEN <<Msg("read ./go.mod: is a directory")>>
    ELSE Nil

queryCheck(g) ==
    IF ~g.exists
    THEN Wrap(<<Msg("open ./go.mod: no such file or directory")>>,
              "query must be executed from the integrations project root directory")
    ELSE IF ~g.readable THEN <<Msg("read ./go.mod: is a directory")>>
    ELSE IF ModulePath(g) # elasticIntegrations
    THEN <<Msg("query must be executed from the integrations project root directory")>>
    ELSE Nil

\* a read of the file system: os.Open, ioutil.ReadDir, yaml.NewConfigWithFile
Read(op, path) == [op |-> op, path |-> path]

Line(text)        == [text |-> text, skip |-> <<>>, pkg |-> <<>>]
SkippedLine(v)    == [text |-> " ", skip |-> <<v>>, pkg |-> <<>>]
FoundLine(v)      == [text |-> " ", skip |-> <<>>, pkg |-> <<v>>]

QueryInit ==
    /\ qpc = "check"
    /\ gomod \in GoMods
    /\ packagesDir \in {[ok |-> FALSE, entries |-> <<>>]} \cup {[ok |-> TRUE, entries |-> l] : l \in Listings}
    /\ key = ""
    /\ values = <<>>
    /\ pkgs = <<>>
    /\ idx = 0
    /\ skipped = <<>>
    /\ found = <<>>
    /\ qret = Nil
    /\ out = <<>>
    /\ qreads = <<>>
    /\ SwarmUnused
    /\ DockerUnused
    /\ DeployUnused
    /\ ErrorUnused

\* lines 46-49
queryManifestCheck ==
    /\ qpc = "check"
    /\ IF queryCheck(gomod) # Nil
       THEN /\ qret' = queryCheck(gomod)
            /\ qpc' = "done"
       ELSE /\ qret' = qret
            /\ qpc' = "flags"
    /\ qreads' = Append(qreads, Read("os.Open", <<".", "go.mod">>))
    /\ UNCHANGED <<gomod, packagesDir, key, values, pkgs, idx, skipped, found, out, otherThanQuery>>

\* lines 50-63: the flags (both registered, lines 31-32), the trimming and
\* the listing of ./packages
queryManifestList ==
    /\ qpc = "flags"
    /\ \E k \in Keys, vs \in ValueLists :
         /\ key' = k
         /\ values' = TrimStringSlice(vs)
    /\ IF ~packagesDir.ok
       THEN /\ qret' = Wrap(<<Msg("open packages: no such file or directory")>>,
                            "cannot find package directories")
            /\ pkgs' = pkgs
            /\ qpc' = "done"
       ELSE /\ qret' = qret
            /\ pkgs' = packagesDir.entries
            /\ qpc' = "loop"
    /\ qreads' = Append(qreads, Read("ioutil.ReadDir", <<".", "packages">>))
    /\ UNCHANGED <<gomod, packagesDir, idx, skipped, found, out, otherThanQuery>>

\* lines 64-76: one iteration of the loop over pkgs
queryManifestLoop ==
    /\ qpc = "loop"
    /\ idx < Len(pkgs)
    /\ LET pkg == pkgs[idx + 1]
           r   == queryPackageManifest(key, values, pkg.manifest.cfg)
       IN  IF ~pkg.isDir
           THEN /\ idx' = idx + 1
                /\ UNCHANGED <<qpc, skipped, found>>
           ELSE IF pkg.manifest.loadErr # ""
           THEN /\ skipped' = Append(skipped, [name |-> pkg.name, reason |-> pkg.manifest.loadErr])
                /\ idx' = idx + 1
                /\ UNCHANGED <<qpc, found>>
           ELSE IF r.panic
           THEN /\ qpc' = "panic"
                /\ UNCHANGED <<idx, skipped, found>>
           ELSE /\ found' = IF r.match THEN Append(found, pkg.name) ELSE found
                /\ idx' = idx + 1
                /\ UNCHANGED <<qpc, skipped>>
    /\ qreads' = IF pkgs[idx + 1].isDir
                 THEN Append(qreads, Read("yaml.NewConfigWithFile",
                                          <<".", "packages", pkgs[idx + 1].name, "manifest.yml">>))
                 ELSE qreads
    /\ UNCHANGED <<gomod, packagesDir, key, values, pkgs, qret, out, otherThanQuery>>

\* lines 77-93
queryManifestReport ==
    /\ qpc = "loop"
    /\ idx = Len(pkgs)
    /\ out' = (IF Len(skipped) > 0
               THEN <<Line("Skipped packages:")>> \o [i \in 1..Len(skipped) |-> SkippedLine(skipped[i])]
               ELSE <<>>)
              \o
              (IF Len(found) = 0
               THEN <<Line("key with value not found in any packages")>>
               ELSE <<Line("Packages:")>> \o [i \in 1..Len(found) |-> FoundLine(found[i])])
    /\ qret' = Nil
    /\ qpc' = "done"
    /\ UNCHANGED <<gomod, packagesDir, key, values, pkgs, idx, skipped, found, qreads, otherThanQuery>>

QueryNext ==
    \/ queryManifestCheck
    \/ queryManifestList
    \/ queryManifestLoop
    \/ queryManifestReport

QuerySpec == QueryInit /\ [][QueryNext]_vars

----------------------------------------------------------------------------
(* Claims about queryManifest, under QuerySpec *)

\* the configuration has the key, its value reads as a string, and that
\* string is the first of the values
KeyValueMatch(k, vals, cfg) ==
    /\ vals # <<>>
    /\ \E i \in 1..Len(cfg) : cfg[i].key = k /\ cfg[i].readable /\ cfg[i].str = vals[1]

IsPackage(pkg)  == pkg.isDir
LoadFails(pkg)  == pkg.isDir /\ pkg.manifest.loadErr # ""
LoadsFine(pkg)  == pkg.isDir /\ pkg.manifest.loadErr = ""

InFound(name)   == \E j \in 1..Len(found) : found[j] = name
InSkipped(name) == \E j \in 1..Len(skipped) : skipped[j].name = name

\* the run is over, and it came as far as listing ./packages
QueryEnded ==
    /\ qpc \in {"done", "panic"}
    /\ queryCheck(gomod) = Nil
    /\ packagesDir.ok

\* the names of the packages of a listing that match, in listing order
RECURSIVE Matching(_, _, _)
Matching(l, k, vals) ==
    IF l = <<>> THEN <<>>
    ELSE (IF LoadsFine(Head(l)) /\ KeyValueMatch(k, vals, Head(l).manifest.cfg)
          THEN <<Head(l).name>> ELSE <<>>) \o Matching(Tail(l), k, vals)

\* a listing without the packages whose manifest fails to load
RECURSIVE WithoutFailing(_)
WithoutFailing(l) ==
    IF l = <<>> THEN <<>>
    ELSE (IF LoadFails(Head(l)) THEN <<>> ELSE <<Head(l)>>) \o WithoutFailing(Tail(l))

\* the place of a name in the listing
Place(name) == CHOOSE i \in 1..Len(pkgs) : pkgs[i].name = name

\* C7: a package matches exactly when its flattened keys contain the queried
\* key and the string read at that key equals values[0]; values after the
\* first never change the result; an absent key and a value that does not
\* read as a string give no match.
C7_MatchIsFirstValue ==
    \A i \in 1..Len(pkgs) :
        LoadsFine(pkgs[i]) =>
            LET cfg == pkgs[i].manifest.cfg
            IN  /\ queryPackageManifest(key, values, cfg).match <=> KeyValueMatch(key, values, cfg)
                /\ \A vs \in ValueLists :
                      (vs # <<>> /\ values # <<>> /\ TrimString(vs[1]) = values[1]) =>
                          queryPackageManifest(key, TrimStringSlice(vs), cfg).match
                              = queryPackageManifest(key, values, cfg).match
                /\ i <= idx => (InFound(pkgs[i].name) <=> KeyValueMatch(key, values, cfg))

\* C7 witness: two values; the package with the first is found, a package
\* whose value is the second is not.
C7_Witness ==
    /\ qpc = "done"
    /\ Len(values) = 2
    /\ values[1] # values[2]
    /\ \E i, j \in 1..Len(pkgs) :
          /\ LoadsFine(pkgs[i]) /\ LoadsFine(pkgs[j])
          /\ KeyValueMatch(key, values, pkgs[i].manifest.cfg)
          /\ KeyValueMatch(key, Tail(values), pkgs[j].manifest.cfg)
          /\ InFound(pkgs[i].name)
          /\ ~InFound(pkgs[j].name)

\* C8 (as claimed): a package whose manifest fails to load is in the skipped
\* list with its name and a non-empty reason and not in the matched list,
\* every other package is still evaluated, and the matched list is what it
\* would be without the failing packages.
C8_LoadFailureIsolated ==
    QueryEnded =>
        \A i \in 1..Len(pkgs) :
            LoadFails(pkgs[i]) =>
                /\ \E j \in 1..Len(skipped) :
                      skipped[j].name = pkgs[i].name /\ skipped[j].reason # ""
                /\ ~InFound(pkgs[i].name)
                /\ found = Matching(WithoutFailing(pkgs), key, values)

\* C9 (as claimed): only the directories among the entries of ./packages are
\* considered, each of them once, and both lists are in listing order.
C9_DirectoriesOnceInOrder ==
    QueryEnded =>
        /\ \A i \in 1..Len(pkgs) :
              /\ ~IsPackage(pkgs[i]) => (~InFound(pkgs[i].name) /\ ~InSkipped(pkgs[i].name))
              /\ LoadFails(pkgs[i]) => InSkipped(pkgs[i].name)
              /\ (LoadsFine(pkgs[i]) /\ KeyValueMatch(key, values, pkgs[i].manifest.cfg)) =>
                     InFound(pkgs[i].name)
        /\ \A a, b \in 1..Len(found) : a < b => Place(found[a]) < Place(found[b])
        /\ \A a, b \in 1..Len(skipped) : a < b => Place(skipped[a].name) < Place(skipped[b].name)
        /\ \A a \in 1..Len(found) : ~InSkipped(found[a])

\* C10 (as claimed): once the project-root check passed and ./packages was
\* listed, queryManifest returns no error, whatever the packages are.
C10_NoErrorAfterListing ==
    QueryEnded => (qpc = "done" /\ qret = Nil)

\* C11: the project-root check comes first: when ./go.mod cannot be opened
\* or declares another module path than github.com/elastic/integrations,
\* queryManifest returns an error and reads neither ./packages nor a
\* manifest; the check passes only for that module path.
C11_RootCheckFirst ==
    /\ qreads # <<>> => qreads[1] = Read("os.Open", <<".", "go.mod">>)
    /\ (qpc # "check" /\ (~gomod.exists \/ ModulePath(gomod) # elasticIntegrations)) =>
          /\ qpc = "done"
          /\ qret # Nil
          /\ qreads = <<Read("os.Open", <<".", "go.mod">>)>>
          /\ pkgs = <<>> /\ skipped = <<>> /\ found = <<>> /\ out = <<>>
    /\ Len(qreads) > 1 =>
          /\ gomod.exists
          /\ ModulePath(gomod) = "github.com/elastic/integrations"

C11_Witness ==
    /\ qpc = "done"
    /\ gomod.exists /\ gomod.readable
    /\ ModulePath(gomod) = "github.com/elastic/beats"
    /\ qret # Nil
    /\ qreads = <<Read("os.Open", <<".", "go.mod">>)>>

----------------------------------------------------------------------------
(* internal/stack: Deploy *)

\* the packages a custom build directory may hold, and what an earlier run
\* may have left in the stack packages directory
BuiltFiles == {"apache-1.0.0.zip", "nginx-1.0.0.zip"}
OldFiles   == {"old-0.9.0.zip"}

\* builder.FindBuildPackagesDirectory(): an error, not found, or found
BuildPackagesDirs ==
    {[ok |-> FALSE, found |-> FALSE, path |-> "", files |-> {}],
     [ok |-> TRUE,  found |-> FALSE, path |-> "", files |-> {}]}
    \cup {[ok |-> TRUE, found |-> TRUE, path |-> "build/packages", files |-> f] : f \in SUBSET BuiltFiles}

\* files.ClearDir(dir): removes every entry; a failure stops it part way
ClearDir(dir, ok, left) == IF ok THEN {} ELSE left

\* files.CopyAll(src, dst): copies every entry; a failure stops it part way
CopyAll(src, dst, ok, copied) == IF ok THEN dst \cup src ELSE dst \cup copied

\* one stage of Deploy: the call it made and whether it succeeded
Stage(name, ok) == Effect(name, <<>>, ok)

FoundLine2(path) ==
    CASE path = "build/packages" -> "Custom build packages directory found: build/packages"
      [] OTHER                   -> "Custom build packages directory found: "
DashLine(path) ==
    CASE path = "build/packages" -> "- build/packages"
      [] OTHER                   -> "- "

DeployInit ==
    /\ dpc = "find"
    /\ buildPackages \in BuildPackagesDirs
    /\ dfound = FALSE
    /\ dest \in SUBSET (OldFiles \cup BuiltFiles)
    /\ dret = Nil
    /\ dtrace = <<>>
    /\ dout = <<>>
    /\ debug \in BOOLEAN
    /\ dcall = [op |-> "unused", res |-> Result(<<>>, <<>>, Nil)]
    /\ dargs = <<>>
    /\ dtwin = [op |-> "unused", res |-> Result(<<>>, <<>>, Nil)]
    /\ SwarmUnused
    /\ QueryUnused
    /\ ErrorUnused

\* buildPackagesPath, found, err := builder.FindBuildPackagesDirectory()
deployFind ==
    /\ dpc = "find"
    /\ dtrace' = Append(dtrace, Stage("builder.FindBuildPackagesDirectory", buildPackages.ok))
    /\ IF ~buildPackages.ok
       THEN /\ dret' = Wrap(<<Msg("stat build: permission denied")>>, "finding build packages directory failed")
            /\ dpc' = "done"
            /\ UNCHANGED dfound
       ELSE /\ dfound' = buildPackages.found
            /\ dpc' = "locate"
            /\ UNCHANGED dret
    /\ UNCHANGED <<buildPackages, dest, dout, debug, otherThanDeploy>>

\* stackPackagesDir, err := locations.NewLocationManager()
deployLocate ==
    /\ dpc = "locate"
    /\ \E ok \in BOOLEAN :
         /\ dtrace' = Append(dtrace, Stage("locations.NewLocationManager", ok))
         /\ IF ~ok
            THEN /\ dret' = Wrap(<<Msg("$HOME is not defined")>>, "locating stack packages directory failed")
                 /\ dpc' = "done"
            ELSE /\ dpc' = "clear"
                 /\ UNCHANGED dret
    /\ UNCHANGED <<buildPackages, dfound, dest, dout, debug, otherThanDeploy>>

\* mutant: the directory is cleared only for a custom build directory
deployClear_OnlyIfFound ==
    /\ dpc = "clear"
    /\ \E ok \in BOOLEAN, left \in SUBSET dest :
         IF dfound
         THEN /\ dtrace' = Append(dtrace, Stage("files.ClearDir", ok))
              /\ dest' = ClearDir(dest, ok, left)
              /\ IF ~ok
                 THEN /\ dret' = Wrap(<<Msg("unlinkat: permission denied")>>, "clearing package contents failed")
                      /\ dpc' = "done"
                 ELSE /\ dpc' = "copy"
                      /\ UNCHANGED dret
         ELSE /\ dpc' = "copy"
              /\ UNCHANGED <<dtrace, dest, dret>>
    /\ UNCHANGED <<buildPackages, dfound, dout, debug, otherThanDeploy>>

\* err = files.ClearDir(stackPackagesDir.PackagesDir())
deployClear ==
    /\ dpc = "clear"
    /\ \E ok \in BOOLEAN, left \in SUBSET dest :
         /\ dtrace' = Append(dtrace, Stage("files.ClearDir", ok))
         /\ dest' = ClearDir(dest, ok, left)
         /\ IF ~ok
            THEN /\ dret' = Wrap(<<Msg("unlinkat: permission denied")>>, "clearing package contents failed")
                 /\ dpc' = "done"
            ELSE /\ dpc' = "copy"
                 /\ UNCHANGED dret
    /\ UNCHANGED <<buildPackages, dfound, dout, debug, otherThanDeploy>>

\* if found { Printf; err = files.CopyAll(...) }, then the two Println and
\* the second if found
deployCopy ==
    /\ dpc = "copy"
    /\ LET loaded == <<"Packages from the following directories will be loaded into the package-registry:",
                       "- built-in packages (package-storage:snapshot Docker image)">>
       IN  IF dfound
           THEN \E ok \in BOOLEAN, copied \in SUBSET buildPackages.files :
                  /\ (~ok => copied # buildPackages.files)
                  /\ dtrace' = Append(dtrace, Stage("files.CopyAll", ok))
                  /\ dest' = CopyAll(buildPackages.files, dest, ok, copied)
                  /\ IF ~ok
                     THEN /\ dret' = Wrap(<<Msg("write: no space left on device")>>,
                                          "copying package contents failed")
                          /\ dout' = Append(dout, FoundLine2(buildPackages.path))
                          /\ dpc' = "done"
                     ELSE /\ dout' = Append(dout, FoundLine2(buildPackages.path)) \o loaded
                                     \o <<DashLine(buildPackages.path)>>
                          /\ dpc' = "build"
                          /\ UNCHANGED dret
           ELSE /\ dout' = dout \o loaded
                /\ dpc' = "build"
                /\ UNCHANGED <<dtrace, dest, dret>>
    /\ UNCHANGED <<buildPackages, dfound, debug, otherThanDeploy>>

\* mutant: a failed image build does not end Deploy
deployBuild_Continue ==
    /\ dpc = "build"
    /\ \E ok \in BOOLEAN :
         /\ dtrace' = Append(dtrace, Stage("dockerComposeBuild", ok))
         /\ dpc' = "deploy"
         /\ UNCHANGED dret
    /\ UNCHANGED <<buildPackages, dfound, dest, dout, debug, otherThanDeploy>>

\* err = dockerComposeBuild(options)
deployBuild ==
    /\ dpc = "build"
    /\ \E ok \in BOOLEAN :
         /\ dtrace' = Append(dtrace, Stage("dockerComposeBuild", ok))
         /\ IF ~ok
            THEN /\ dret' = Wrap(<<Msg("running command failed")>>, "building docker images failed")
                 /\ dpc' = "done"
            ELSE /\ dpc' = "deploy"
                 /\ UNCHANGED dret
    /\ UNCHANGED <<buildPackages, dfound, dest, dout, debug, otherThanDeploy>>

\* err = stackDeploy(options)
deployStack ==
    /\ dpc = "deploy"
    /\ \E composeFile \in ComposeFiles, stackName \in StackNames, cfgOk \in BOOLEAN,
          environ \in Environs, imageRefs \in ImageRefEnvs, variant \in VariantEnvs,
          composeEnvVars \in ComposeEnvVars, p \in Procs(NoOutput) :
         LET r == stackDeploy(composeFile, stackName, cfgOk, environ, imageRefs, variant,
                              composeEnvVars, debug, p)
         IN  /\ dtrace' = dtrace \o <<Stage("install.Configuration", cfgOk)>> \o r.cmds
             /\ dret' = IF r.err # Nil THEN Wrap(r.err, "running docker stack deploy failed") ELSE Nil
    /\ dpc' = "done"
    /\ UNCHANGED <<buildPackages, dfound, dest, dout, debug, otherThanDeploy>>

DeployNext ==
    \/ deployFind
    \/ deployLocate
    \/ deployClear
    \/ deployCopy
    \/ deployBuild
    \/ deployStack

DeploySpec == DeployInit /\ [][DeployNext]_vars

----------------------------------------------------------------------------
(* Every operation that runs an external command: one run of stackInit, of *)
(* a docker wrapper or of Deploy                                           *)

OperationInit == Init \/ DockerInit \/ DeployInit
OperationNext == Next \/ DockerNext \/ DeployNext
OperationSpec == OperationInit /\ [][OperationNext]_vars

\* an external command among the recorded calls
IsExternal(e) == e.kind \in {"exec", "dockerComposeBuild"}
Failed(e)     == e.proc.exit # 0

\* no command line occurs twice among the calls
NoneRepeated(calls) ==
    \A i, j \in 1..Len(calls) :
        (i < j /\ IsExternal(calls[i]) /\ IsExternal(calls[j])) =>
            <<calls[i].kind, calls[i].args>> # <<calls[j].kind, calls[j].args>>

\* C12: no external command is retried and every failure is surfaced: in
\* one call of an operation each docker command is invoked at most once,
\* and a non-zero exit of any external command makes the operation return
\* an error without running a later step of its normal sequence (the
\* compensating `docker swarm leave --force` of stackInit is the only call
\* that may follow a failure).
C12_NoRetryFailureSurfaced ==
    /\ NoneRepeated(dcall.res.cmds)
    /\ \A i \in 1..Len(dcall.res.cmds) :
          Failed(dcall.res.cmds[i]) => dcall.res.err # Nil /\ i = Len(dcall.res.cmds)
    /\ NoneRepeated(trace)
    /\ \A i \in 1..Len(trace) :
          (IsExternal(trace[i]) /\ Failed(trace[i])) =>
              /\ pc \in {"rollback", "done"}
              /\ pc = "done" => ret # Nil
              /\ \A j \in (i + 1)..Len(trace) : IsSwarmLeave(trace[j]) /\ IsNetworkCreate(trace[i])
    /\ NoneRepeated(dtrace)
    /\ \A i \in 1..Len(dtrace) :
          (IsExternal(dtrace[i]) /\ Failed(dtrace[i])) =>
              dpc = "done" /\ dret # Nil /\ i = Len(dtrace)

C12_Witness ==
    /\ pc = "done"
    /\ ret # Nil
    /\ Len(trace) = 4
    /\ IsSwarmInit(trace[3]) /\ Succeeded(trace[3])
    /\ IsJoinToken(trace[4]) /\ Failed(trace[4])

----------------------------------------------------------------------------
(* Claims about Deploy, under DeploySpec *)

IsFind(e)    == e.kind = "builder.FindBuildPackagesDirectory"
IsLocate(e)  == e.kind = "locations.NewLocationManager"
IsClear(e)   == e.kind = "files.ClearDir"
IsCopy(e)    == e.kind = "files.CopyAll"
IsBuild(e)   == e.kind = "dockerComposeBuild"
IsDeploy(e)  == e.kind = "install.Configuration" \/ HasPrefix(e, <<"docker", "stack", "deploy">>)

\* the place of a call in Deploy's sequence
DeployRank(e) ==
    CASE IsFind(e)   -> 1
      [] IsLocate(e) -> 2
      [] IsClear(e)  -> 3
      [] IsCopy(e)   -> 4
      [] IsBuild(e)  -> 5
      [] e.kind = "install.Configuration" -> 6
      [] OTHER       -> 7

\* the message that names the stage a call belongs to
StageMessage(e) ==
    CASE IsFind(e)   -> "finding build packages directory failed"
      [] IsLocate(e) -> "locating stack packages directory failed"
      [] IsClear(e)  -> "clearing package contents failed"
      [] IsCopy(e)   -> "copying package contents failed"
      [] IsBuild(e)  -> "building docker images failed"
      [] OTHER       -> "running docker stack deploy failed"

Ran(P(_))       == \E i \in 1..Len(dtrace) : P(dtrace[i])
RanFine(P(_))   == \E i \in 1..Len(dtrace) : P(dtrace[i]) /\ Succeeded(dtrace[i])
RanFailed(P(_)) == \E i \in 1..Len(dtrace) : P(dtrace[i]) /\ Failed(dtrace[i])

\* C13: Deploy runs find, locate, clear, copy (if found), build, deploy in
\* this order; a failed stage is the last one that runs, the error returned
\* names it, and nothing already applied is undone: the destination stays
\* as the clear or the (partial) copy left it.
C13_StagesInOrderAbort ==
    /\ \A i, j \in 1..Len(dtrace) : i < j => DeployRank(dtrace[i]) < DeployRank(dtrace[j])
    /\ \A i \in 1..Len(dtrace) :
          /\ (i > 1 /\ ~IsBuild(dtrace[i])) => DeployRank(dtrace[i]) = DeployRank(dtrace[i - 1]) + 1
          /\ (i > 1 /\ IsBuild(dtrace[i])) => DeployRank(dtrace[i - 1]) = (IF dfound THEN 4 ELSE 3)
          /\ i = 1 => IsFind(dtrace[i])
          /\ Failed(dtrace[i]) =>
                /\ i = Len(dtrace)
                /\ dpc = "done"
                /\ dret # Nil
                /\ dret[1].msg = StageMessage(dtrace[i])
    /\ (dpc = "done" /\ dret = Nil) => (Len(dtrace) > 0 /\ DeployRank(dtrace[Len(dtrace)]) = 7)
    /\ (dpc = "done" /\ dret # Nil) => Failed(dtrace[Len(dtrace)])
    /\ (dpc = "done" /\ RanFine(IsClear) /\ ~Ran(IsCopy))   => dest = {}
    /\ (dpc = "done" /\ RanFine(IsCopy))                    => dest = buildPackages.files
    /\ (dpc = "done" /\ RanFailed(IsCopy)) =>
          (dest \subseteq buildPackages.files /\ dest # buildPackages.files)

C13_Witness ==
    /\ dpc = "done"
    /\ RanFailed(IsCopy)
    /\ dret # Nil
    /\ dret[1].msg = "copying package contents failed"
    /\ dest = {"apache-1.0.0.zip"}
    /\ buildPackages.files = BuiltFiles

\* C14: the destination is cleared whether or not a custom build-packages
\* directory was found; the copy runs only when one was found and only
\* after the clear succeeded; when none was found the build stage starts
\* with an empty destination.
C14_ClearUnconditionalCopyIfFound ==
    /\ (RanFine(IsLocate) /\ dpc # "clear") => Ran(IsClear)
    /\ dpc \in {"copy", "build", "deploy"} => RanFine(IsClear)
    /\ \A i \in 1..Len(dtrace) :
          IsCopy(dtrace[i]) =>
              /\ dfound /\ buildPackages.found
              /\ \E j \in 1..(i - 1) : IsClear(dtrace[j]) /\ Succeeded(dtrace[j])
    /\ (dfound /\ dpc \in {"build", "deploy"}) => RanFine(IsCopy)
    /\ (~dfound /\ (dpc \in {"build", "deploy"} \/ Ran(IsBuild))) => (dest = {} /\ ~Ran(IsCopy))

C14_Witness ==
    /\ ~buildPackages.found
    /\ RanFine(IsClear)
    /\ RanFine(IsBuild)
    /\ ~Ran(IsCopy)
    /\ dest = {}
    /\ dpc = "done"
    /\ dret = Nil

----------------------------------------------------------------------------
(* Claims about the wrappers, under DockerSpec *)

\* the cmd.Env the claim describes: os.Environ(), then the image-reference
\* variables, the stack-variant variable and the profile's compose variables
MergedEnv(a) == a.environ \o a.imageRefs \o <<a.variant>> \o a.composeEnvVars

Entries(env) == {env[i] : i \in 1..Len(env)}

DeployRan == dcall.op = "stackDeploy" /\ dcall.res.cmds # <<>>

\* C15 (as claimed): the environment given to the `docker stack deploy`
\* process is the inherited environment, unchanged and in order, followed by
\* the merged variables in the order image references, variant, profile;
\* every inherited and every merged entry is present and no other is added.
C15_EnvAsClaimed ==
    DeployRan =>
        LET env == dcall.res.cmds[1].env
        IN  /\ env.set
            /\ env.vars = MergedEnv(dargs)
            /\ \A e \in Entries(dargs.environ) : e \in dedupEnv(env.vars)
            /\ \A e \in Entries(MergedEnv(dargs)) : e \in dedupEnv(env.vars)
            /\ dedupEnv(env.vars) \subseteq Entries(MergedEnv(dargs))

\* C15 (amended): cmd.Env is the inherited environment followed by the
\* merged variables in that order; of the entries with the same name the
\* process is given the last one only, so an inherited entry is present
\* unless a merged variable has its name, every entry given to the process
\* is an inherited or a merged one, and with no name occurring twice every
\* entry is present.
C15_EnvLastWins ==
    DeployRan =>
        LET env   == dcall.res.cmds[1].env
            all   == MergedEnv(dargs)
            given == dedupEnv(env.vars)
        IN  /\ env.set
            /\ env.vars = all
            /\ SubSeq(env.vars, 1, Len(dargs.environ)) = dargs.environ
            /\ given \subseteq Entries(all)
            /\ \A i \in 1..Len(all) :
                  all[i] \in given <=> (\A j \in (i + 1)..Len(all) : all[j].name = all[i].name => all[j] = all[i])
            /\ \A n \in {e.name : e \in Entries(all)} : Cardinality({e \in given : e.name = n}) = 1
            /\ (\A i, j \in 1..Len(all) : i # j => all[i].name # all[j].name) => given = Entries(all)

C15_Witness ==
    /\ DeployRan
    /\ dargs.environ = <<EnvVar("HOME", "/root"), EnvVar("STACK_VERSION", "7.0.0")>>
    /\ dargs.composeEnvVars = <<EnvVar("STACK_VERSION", "8.0.0")>>
    /\ EnvVar("STACK_VERSION", "8.0.0") \in dedupEnv(dcall.res.cmds[1].env.vars)
    /\ EnvVar("STACK_VERSION", "7.0.0") \notin dedupEnv(dcall.res.cmds[1].env.vars)
    /\ EnvVar("HOME", "/root") \in dedupEnv(dcall.res.cmds[1].env.vars)

\* the operations that parse the standard output of the command
ParsesOutput == {"ContainerID", "InspectNetwork", "InspectContainers", "swarmJoinToken"}

\* C16: debug mode changes only the mirroring of the streams: for every
\* operation and every behaviour of the external command, the command line,
\* the value returned and the error returned are the same in both modes;
\* the operations that parse output buffer stdout in both modes.
C16_DebugOnlyMirrors ==
    dcall.op \notin {"none", "unused"} =>
        /\ dtwin.op = dcall.op
        /\ Len(dtwin.res.cmds) = Len(dcall.res.cmds)
        /\ \A i \in 1..Len(dcall.res.cmds) :
              /\ dtwin.res.cmds[i].args = dcall.res.cmds[i].args
              /\ dtwin.res.cmds[i].env = dcall.res.cmds[i].env
              /\ dtwin.res.cmds[i].proc = dcall.res.cmds[i].proc
        /\ dtwin.res.val = dcall.res.val
        /\ (dtwin.res.err = Nil) <=> (dcall.res.err = Nil)
        /\ dtwin.res.err = dcall.res.err
        /\ dcall.op \in ParsesOutput =>
              \A i \in 1..Len(dcall.res.cmds) :
                  dcall.res.cmds[i].stdout = "buffer" /\ dtwin.res.cmds[i].stdout = "buffer"

C16_Witness ==
    /\ debug
    /\ dcall.op = "Pull"
    /\ dcall.res.cmds[1].proc.exit # 0
    /\ dcall.res.cmds[1].stdout = "console"
    /\ dtwin.res.cmds[1].stdout = "discard"
    /\ dcall.res.err # Nil
    /\ dtwin.res.err = dcall.res.err

\* the lines of `docker ps --format {{.ID}}` output that hold a container ID
NonEmptyLines(output) == SelectSeq(SplitLines(output), LAMBDA l : l # <<>>)

\* C18 (as claimed): ContainerID returns an ID with no error only when the
\* `docker ps` output lists exactly one container ID, and returns that
\* non-empty line; with zero or more than one matching container it returns
\* the "expected single container" error.
C18_SingleContainerOnly ==
    (dcall.op = "ContainerID" /\ Succeeded(dcall.res.cmds[1])) =>
        LET ids == NonEmptyLines(dcall.res.cmds[1].proc.out)
        IN  /\ dcall.res.err = Nil =>
                  /\ Len(ids) = 1
                  /\ dcall.res.val = ids[1]
                  /\ dcall.res.val # <<>>
            /\ Len(ids) # 1 => dcall.res.err = <<Msg("expected single container")>>

----------------------------------------------------------------------------
(* Further claims about stackInit, under Spec *)

\* C17 (as claimed): whenever stackInit returns an error after `docker swarm
\* init` succeeded in that call, `docker swarm leave --force` was invoked
\* before the return, whether the join-token fetch or the overlay network
\* creation failed.
C17_LeaveAfterAnyLateFailure ==
    (/\ pc = "done"
     /\ ret # Nil
     /\ \E i \in 1..Len(trace) : IsSwarmInit(trace[i]) /\ Succeeded(trace[i])) =>
        \E j \in 1..Len(trace) :
            /\ IsSwarmLeave(trace[j])
            /\ \A i \in 1..Len(trace) : IsSwarmInit(trace[i]) => i < j

----------------------------------------------------------------------------
(* Further claims about queryManifest, under QuerySpec *)

\* C19 (as claimed): queryPackageManifest returns a boolean for every key,
\* every loaded configuration and every value list, the empty one included:
\* it never indexes the value list out of range, and a query with an empty
\* value list reports no match for each package instead of aborting.
C19_EmptyValuesNoMatch ==
    /\ qpc # "panic"
    /\ \A i \in 1..idx :
          LoadsFine(pkgs[i]) => ~queryPackageManifest(key, values, pkgs[i].manifest.cfg).panic
    /\ (qpc = "done" /\ QueryEnded /\ values = <<>>) => (found = <<>> /\ qret = Nil)

----------------------------------------------------------------------------
(* internal/elasticsearch: NewError *)

\* longest root_cause list of a response body
MaxRootCause == 2

ErrTypes    == {"", "index_not_found_exception", "parsing_exception"}
ErrReasons  == {"", "no such index [logs]", "unknown query [foo]"}
Causes      == {[type |-> "index_not_found_exception", reason |-> "no such index [logs]"],
                [type |-> "script_exception", reason |-> "compile error"]}
RootCauses  == SeqsUpTo(Causes, MaxRootCause)

\* the "error" member of a JSON object: none, null, a string, or an object
\* with type, reason and root_cause
ErrorMembers ==
    {[kind |-> k, type |-> "", reason |-> "", root_cause |-> <<>>] : k \in {"absent", "null", "string"}}
    \cup [kind : {"object"}, type : ErrTypes, reason : ErrReasons, root_cause : RootCauses]

\* response bodies: text that is no JSON (an empty body, an HTML page), the
\* JSON values null and 503, and JSON objects; trailing: more bytes follow
\* the first JSON value
Bodies ==
    [kind : {"empty", "html", "null", "number"}, error : {[kind |-> "absent", type |-> "", reason |-> "",
                                                          root_cause |-> <<>>]}, trailing : {FALSE}]
    \cup [kind : {"object"}, error : ErrorMembers, trailing : BOOLEAN]

\* the zero value of ErrorBody, as far as NewError reads it
ZeroErrorBody == [Type |-> "", Reason |-> "", RootCause |-> <<>>]

\* json.NewDecoder(bytes.NewReader(body)).Decode(&errBody): reads the first
\* JSON value; null and unknown or missing members leave the zero value, a
\* value of the wrong JSON type is an error, bytes after the value are not
\* read
Decode(b) ==
    CASE b.kind = "empty"  -> [err |-> <<Msg("EOF")>>, val |-> ZeroErrorBody]
      [] b.kind = "html"   -> [err |-> <<Msg("invalid character '<' looking for beginning of value")>>,
                               val |-> ZeroErrorBody]
      [] b.kind = "number" -> [err |-> <<Msg("json: cannot unmarshal number into Go value of type elasticsearch.ErrorBody")>>,
                               val |-> ZeroErrorBody]
      [] b.kind = "null"   -> [err |-> Nil, val |-> ZeroErrorBody]
      [] b.kind = "object" /\ b.error.kind \in {"absent", "null"} -> [err |-> Nil, val |-> ZeroErrorBody]
      [] b.kind = "object" /\ b.error.kind = "string" ->
             [err |-> <<Msg("json: cannot unmarshal string into Go struct field ErrorBody.error")>>,
              val |-> ZeroErrorBody]
      [] b.kind = "object" /\ b.error.kind = "object" ->
             [err |-> Nil,
              val |-> [Type |-> b.error.type, Reason |-> b.error.reason, RootCause |-> b.error.root_cause]]

\* json.MarshalIndent(v, "", "  ")
MarshalIndent(v) == [indent |-> "  ", json |-> v]

\* mutant: the root-cause section is added for an empty list too
NewError_AlwaysRootCause(b) ==
    LET d == Decode(b)
    IN  IF d.err = Nil
        THEN <<[msg |-> "elasticsearch error (type=%v): %v\nRoot cause:\n%v",
                type |-> d.val.Type, reason |-> d.val.Reason,
                rootCause |-> MarshalIndent(d.val.RootCause)]>>
        ELSE <<[msg |-> "elasticsearch error: %v", raw |-> b]>>

\* the error is the format string of fmt.Errorf with its arguments
NewError(b) ==
    LET d == Decode(b)
    IN  IF d.err = Nil
        THEN IF Len(d.val.RootCause) > 0
             THEN <<[msg |-> "elasticsearch error (type=%v): %v\nRoot cause:\n%v",
                     type |-> d.val.Type, reason |-> d.val.Reason,
                     rootCause |-> MarshalIndent(d.val.RootCause)]>>
             ELSE <<[msg |-> "elasticsearch error (type=%v): %v",
                     type |-> d.val.Type, reason |-> d.val.Reason]>>
        ELSE <<[msg |-> "elasticsearch error: %v", raw |-> b]>>

ErrorInit ==
    /\ body \in Bodies
    /\ eret = Nil
    /\ SwarmUnused
    /\ DockerUnused
    /\ QueryUnused
    /\ DeployUnused

CallNewError ==
    /\ eret = Nil
    /\ body.kind # "unused"
    /\ eret' = NewError(body)
    /\ UNCHANGED <<body, otherThanError>>

ErrorNext == CallNewError

ErrorSpec == ErrorInit /\ [][ErrorNext]_vars

NewErrorCalled == body.kind # "unused" /\ eret # Nil

HasRootCause(e) == e[1].msg = "elasticsearch error (type=%v): %v\nRoot cause:\n%v"
HasRawBody(e)   == e[1].msg = "elasticsearch error: %v"

\* C20: NewError returns a non-nil error for every response body; when the
\* body cannot be parsed as the JSON error shape the error contains the raw
\* body; when it parses, the error carries the error type and reason, and
\* the root-cause list exactly when that list is non-empty.
C20_NewErrorShape ==
    /\ \A b \in Bodies : NewError(b) # Nil
    /\ NewErrorCalled =>
          /\ Len(eret) = 1
          /\ body.kind \in {"empty", "html", "number"} => (HasRawBody(eret) /\ eret[1].raw = body)
          /\ (body.kind = "object" /\ body.error.kind = "string") => (HasRawBody(eret) /\ eret[1].raw = body)
          /\ Decode(body).err # Nil <=> HasRawBody(eret)
          /\ (body.kind = "object" /\ body.error.kind = "object") =>
                /\ eret[1].type = body.error.type
                /\ eret[1].reason = body.error.reason
                /\ HasRootCause(eret) <=> body.error.root_cause # <<>>
                /\ HasRootCause(eret) => eret[1].rootCause = MarshalIndent(body.error.root_cause)
          /\ Decode(body).err = Nil =>
                /\ eret[1].type = Decode(body).val.Type
                /\ eret[1].reason = Decode(body).val.Reason
                /\ HasRootCause(eret) <=> Len(Decode(body).val.RootCause) > 0

C20_Witness ==
    /\ NewErrorCalled
    /\ body.kind = "object"
    /\ body.error.kind = "object"
    /\ body.error.type = "index_not_found_exception"
    /\ Len(body.error.root_cause) = 2
    /\ HasRootCause(eret)
    /\ eret[1].type = "index_not_found_exception"

====
